---- MODULE Spec2Model ----
(***************************************************************************)
(* A model of the ResTools paper pipeline: the link classifier, the        *)
(* download phase, the two-strategy extraction engine and the keyed merge  *)
(* of the summaries back into the sheet.                                   *)
(*                                                                         *)
(* Text (a URL, a cell of the sheet, an identifier, a summary) is a        *)
(* sequence of one-character strings, so that lower(), strip(), `in` and   *)
(* endswith() are computed character by character as Python computes them. *)
(***************************************************************************)
EXTENDS Integers, Sequences, FiniteSets, TLC

VARIABLES
    pc,         \* the position of the running script
    url,        \* the value handed to _is_pdf_url
    result,     \* what _is_pdf_url did with it: "True", "False", "ValueError"
    df,         \* the DataFrame the running workflow holds
    index,      \* the row the download loop is at
    blobs,      \* the storage directory papers_pdf_id: file stem -> content
    allocated,  \* history: the identifiers _generate_unique_id returned, in order
    visited,    \* history: the rows whose link was handed to the classifier
    attempts,   \* history: the fetch attempts, [row, id, outcome]
    delays,     \* history: the number of time.sleep(1) calls of the download loop
    sheet,      \* the destination store: the worksheet's table
    summaries,  \* the dict of PDF ID -> summary built by process_all_pdfs
    csv,        \* the local snapshot files: file name -> table
    read_df,    \* history: the table as read_sheet returned it
    pdf_files,  \* the documents process_all_pdfs found: their stems, in order
    doc,        \* the position in pdf_files of the document being processed
    file_id,    \* the upload reference of the document, None when none
    run_status, \* the status of the analysis job as last retrieved
    polls,      \* how many times the job of the document was retrieved
    summary,    \* what the last strategy returned for the document
    summary_files, \* the directory summaries: stem -> the file's content
    trace,      \* history, per document: what each strategy did
    raw_text,   \* the text handed to format_for_google_sheets
    formatted,  \* what format_for_google_sheets returned, pass after pass
    range_name, \* the range the last sheet write was addressed to
    edits,      \* history: the other users' edits of the sheet during the run
    available,  \* PDFPLUMBER_AVAILABLE and PDF_AVAILABLE of the text variant
    text_trace  \* history, per document of the text variant: what was done

urlVars == <<url, result>>
downloadVars == <<index, blobs, allocated, visited, attempts, delays>>
mergeVars == <<sheet, csv, read_df>>
extractVars ==
    <<pdf_files, doc, file_id, run_status, polls, summary, summary_files, trace>>
formatVars == <<raw_text, formatted>>
writeVars == <<range_name, edits>>
textVars == <<available, text_trace>>

----------------------------------------------------------------------------
(* Text helpers *)

Range(s) == {s[i] : i \in DOMAIN s}

SeqsUpTo(S, n) == UNION {[1..k -> S] : k \in 0..n}

\* str.lower(), on the letters the model's texts use.
LowerChar(c) ==
    CASE c = "P" -> "p"
      [] c = "D" -> "d"
      [] c = "F" -> "f"
      [] c = "H" -> "h"
      [] OTHER -> c

Lower(s) == [i \in DOMAIN s |-> LowerChar(s[i])]

\* pattern in s
Contains(s, pattern) ==
    \E i \in 1..(Len(s) - Len(pattern) + 1) :
        SubSeq(s, i, i + Len(pattern) - 1) = pattern

\* s.endswith(suffix)
EndsWith(s, suffix) ==
    /\ Len(s) >= Len(suffix)
    /\ SubSeq(s, Len(s) - Len(suffix) + 1, Len(s)) = suffix

\* The least index of s holding a character of chars, Len(s) + 1 when none does.
FindFirst(s, chars) ==
    IF \E i \in DOMAIN s : s[i] \in chars
    THEN CHOOSE i \in DOMAIN s :
            /\ s[i] \in chars
            /\ \A j \in 1..(i - 1) : s[j] \notin chars
    ELSE Len(s) + 1

----------------------------------------------------------------------------
(* The link classifier: _is_pdf_url, and the urlparse it calls *)

\* The bound on the free part of a classified URL.
MaxUrlLen == 4

\* The characters URLs are built from: letters of "pdf" in both cases, the
\* dot, the path, query and scheme separators, and the bracket of an IPv6 host.
UrlChars == {"p", "d", "f", "F", ".", "/", "?"}

UrlPrefixes ==
    { <<>>,
      <<"/", "/">>,
      <<"/", "/", "[">>,
      <<"h", ":", "/", "/">>,
      <<"h", ":", "/", "/", "[">> }

\* urllib.parse: scheme_chars, restricted to the model's characters.
SchemeChars == {"p", "d", "f", "h", "P", "D", "F", "H", "."}
Letters == {"p", "d", "f", "h", "P", "D", "F", "H"}

\* urlsplit's scheme step: what is left of the URL after "<scheme>:".
AfterScheme(s) ==
    LET i == FindFirst(s, {":"})
    IN  IF /\ i <= Len(s)
           /\ i > 1
           /\ s[1] \in Letters
           /\ \A j \in 1..(i - 1) : s[j] \in SchemeChars
        THEN SubSeq(s, i + 1, Len(s))
        ELSE s

\* urlsplit's netloc step: [netloc, rest]; netloc ends at the first of / ? #.
SplitNetloc(s) ==
    IF Len(s) >= 2 /\ SubSeq(s, 1, 2) = <<"/", "/">>
    THEN LET t == SubSeq(s, 3, Len(s))
             e == FindFirst(t, {"/", "?", "#"})
         IN  [netloc |-> SubSeq(t, 1, e - 1), rest |-> SubSeq(t, e, Len(t))]
    ELSE [netloc |-> <<>>, rest |-> s]

\* urlsplit raises ValueError("Invalid IPv6 URL") on an unbalanced bracket.
InvalidIPv6(netloc) ==
    \/ "[" \in Range(netloc) /\ "]" \notin Range(netloc)
    \/ "]" \in Range(netloc) /\ "[" \notin Range(netloc)

UrlParseRaises(s) == InvalidIPv6(SplitNetloc(AfterScheme(s)).netloc)

\* urlparse(url).path: the rest up to the fragment and the query.
\* (No URL of the model holds ";", so no params are split off the path.)
UrlPath(s) ==
    LET rest == SplitNetloc(AfterScheme(s)).rest
    IN  SubSeq(rest, 1, FindFirst(rest, {"?", "#"}) - 1)

DotPdf == <<".", "p", "d", "f">>

pdf_patterns ==
    << <<"p", "d", "f">>,
       <<"/", "p", "d", "f", "/">>,
       <<"f", "o", "r", "m", "a", "t", "=", "p", "d", "f">>,
       <<"t", "y", "p", "e", "=", "p", "d", "f">>,
       <<"f", "i", "l", "e", "t", "y", "p", "e", "=", "p", "d", "f">>,
       <<"d", "o", "w", "n", "l", "o", "a", "d", "=", "p", "d", "f">> >>

\* A value handed to the classifier: a str, None or an int.
StrVal(s) == [type |-> "str", s |-> s]
NoneArg == [type |-> "NoneType", s |-> <<>>]
IntArg == [type |-> "int", s |-> <<"1", "2", "3">>]

\* _is_pdf_url(url): "True", "False", or "ValueError" when urlparse raises.
IsPdfUrl(u) ==
    IF u.type = "NoneType" \/ (u.type = "str" /\ u.s = <<>>) \/ u.type # "str"
    THEN "False"
    ELSE IF UrlParseRaises(u.s)
    THEN "ValueError"
    ELSE IF EndsWith(Lower(UrlPath(u.s)), DotPdf)
    THEN "True"
    ELSE IF \E k \in DOMAIN pdf_patterns : Contains(Lower(u.s), pdf_patterns[k])
    THEN "True"
    ELSE "False"

ClassifierInputs ==
    {StrVal(p \o b) : p \in UrlPrefixes, b \in SeqsUpTo(UrlChars, MaxUrlLen)}
        \cup {NoneArg, IntArg}

----------------------------------------------------------------------------
(* Tables: a DataFrame, or the sheet it is read from and written to *)

\* A missing cell (None / NaN): the Sheets API leaves out a row's trailing
\* empty cells and DataFrame(values) pads them with None.
NoneVal == <<"NaN">>

Whitespace == {" ", "\n", "\r", "\t"}

RECURSIVE LStrip(_)
LStrip(s) == IF s # <<>> /\ Head(s) \in Whitespace THEN LStrip(Tail(s)) ELSE s

RECURSIVE RStrip(_)
RStrip(s) ==
    IF s # <<>> /\ s[Len(s)] \in Whitespace
    THEN RStrip(SubSeq(s, 1, Len(s) - 1))
    ELSE s

\* str.strip()
Strip(s) == RStrip(LStrip(s))

EmptyTable == [columns |-> <<>>, rows |-> <<>>]

\* df[column] = value
SetColumn(t, column, value) ==
    [columns |-> IF column \in Range(t.columns)
                 THEN t.columns
                 ELSE Append(t.columns, column),
     rows |-> [i \in DOMAIN t.rows |->
                [c \in DOMAIN t.rows[i] \cup {column} |->
                    IF c = column THEN value ELSE t.rows[i][c]]]]

\* df.at[i, column] = value
SetCell(t, i, column, value) ==
    [t EXCEPT !.rows[i][column] = value]

----------------------------------------------------------------------------
(* The download phase: process_links_and_download_pdfs / process_pdfs *)

IdleClassifier == url = [type |-> "NoneType", s |-> <<>>] /\ result = "unset"

IdleFormat == raw_text = <<>> /\ formatted = <<>>

NoCapabilities == [pdfplumber |-> FALSE, PyPDF2 |-> FALSE]

IdleText == available = NoCapabilities /\ text_trace = <<>>

NoRange == [worksheet |-> "", start |-> "", end_col |-> "", end_row |-> 0]

IdleWrite == range_name = NoRange /\ edits = {}

IdleMerge ==
    /\ sheet = EmptyTable
    /\ csv = <<>>
    /\ read_df = EmptyTable

IdleExtract ==
    /\ pdf_files = <<>>
    /\ doc = 0
    /\ file_id = NoneVal
    /\ run_status = "none"
    /\ polls = 0
    /\ summary = NoneVal
    /\ summary_files = <<>>
    /\ trace = <<>>

IdleDownload ==
    /\ index = 0
    /\ blobs = <<>>
    /\ allocated = <<>>
    /\ visited = {}
    /\ attempts = <<>>
    /\ delays = 0

\* The bound on the rows of a sheet handed to the download phase.
MaxRows == 3

\* The bound on the values the identifier allocator can return.
NumIds == 2

IdLength == 8

Digit(k) == CASE k = 1 -> "1" [] k = 2 -> "2" [] k = 3 -> "3" [] OTHER -> "4"

\* str(uuid.uuid4())[:8]: eight hexadecimal characters.
MkId(k) == <<"0", "0", "0", "0", "0", "0", "0", Digit(k)>>

IdSpace == {MkId(k) : k \in 1..NumIds}

Yes == <<"Y", "e", "s">>
No == <<"N", "o">>
Failed == <<"F", "a", "i", "l", "e", "d">>

\* Path("papers_pdf_id")
pdf_dir == <<"p", "a", "p", "e", "r", "s", "_", "p", "d", "f", "_", "i", "d">>

\* str(self.pdf_dir / f"{unique_id}.pdf")
FilePath(unique_id) == pdf_dir \o <<"/">> \o unique_id \o DotPdf

link_column == "link"

PdfLink == <<"/", "a", ".", "p", "d", "f">>
HtmlLink == <<"/", "a">>
MalformedLink == <<"/", "/", "[">>

\* What a cell of the link column can hold.
LinkCells == {NoneVal, <<>>, <<" ">>, PdfLink, HtmlLink, MalformedLink}

DownloadTables ==
    UNION {
        {[columns |-> <<"title", "link">>,
          rows |-> [i \in 1..n |-> [c \in {"title", "link"} |->
                        IF c = "title" THEN <<"t">> ELSE links[i]]]]
            : links \in [1..n -> LinkCells]}
        \cup
        {[columns |-> <<"title">>,
          rows |-> [i \in 1..n |-> [c \in {"title"} |-> <<"t">>]]]}
        : n \in 1..MaxRows}

\* How one call of _download_pdf can end: the file written; requests.get or
\* raise_for_status raising (no file); the stream raising after open() has
\* created the file.
FetchOutcomes == {"ok", "request_failed", "stream_failed"}

\* The storage directory after _download_pdf(url, unique_id) ended as outcome.
DownloadPdf(dir, link, unique_id, outcome) ==
    IF outcome = "request_failed"
    THEN dir
    ELSE [s \in DOMAIN dir \cup {unique_id} |->
            IF s = unique_id
            THEN [from |-> link, complete |-> (outcome = "ok")]
            ELSE dir[s]]

\* The row of a downloaded PDF wrongly written to the whole columns.
MarkDownloaded_WholeColumn(t, i, unique_id, pdf_path) ==
    SetColumn(SetColumn(SetCell(t, i, "PDF Available", Yes),
                        "PDF ID", unique_id), "PDF Path", pdf_path)

\* The row of a downloaded PDF without its path.
MarkDownloaded_NoPath(t, i, unique_id, pdf_path) ==
    SetCell(SetCell(t, i, "PDF Available", Yes), i, "PDF ID", unique_id)

\* if pdf_path: the three cells of a downloaded row.
MarkDownloaded(t, i, unique_id, pdf_path) ==
    SetCell(SetCell(SetCell(t, i, "PDF Available", Yes),
                    i, "PDF ID", unique_id),
            i, "PDF Path", pdf_path)

\* else: the row of a failed download.
MarkFailed(t, i) == SetCell(t, i, "PDF Available", Failed)

\* pd.isna(url) or not url.strip()
IsBlankLink(cell) == cell = NoneVal \/ Strip(cell) = <<>>

InitDownload ==
    /\ pc = "download_start"
    /\ df \in DownloadTables
    /\ index = 0
    /\ blobs = <<>>
    /\ allocated = <<>>
    /\ visited = {}
    /\ attempts = <<>>
    /\ delays = 0
    /\ IdleClassifier
    /\ IdleFormat
    /\ IdleText
    /\ IdleWrite
    /\ IdleMerge
    /\ IdleExtract
    /\ summaries = <<>>

\* The head of process_links_and_download_pdfs: the column check and the
\* three new columns.
StartDownload ==
    /\ UNCHANGED <<urlVars, formatVars, textVars, writeVars, mergeVars, summaries, extractVars>>
    /\ pc = "download_start"
    /\ IF link_column \notin Range(df.columns)
       THEN /\ pc' = "download_returned"
            /\ UNCHANGED <<df, index>>
       ELSE /\ df' = SetColumn(SetColumn(SetColumn(df, "PDF Available", No),
                                         "PDF ID", <<>>), "PDF Path", <<>>)
            /\ index' = 1
            /\ pc' = "download_rows"
    /\ UNCHANGED <<blobs, allocated, visited, attempts, delays>>

AtRow == pc = "download_rows" /\ index \in DOMAIN df.rows

\* continue: a missing or blank link.
SkipRow ==
    /\ UNCHANGED <<urlVars, formatVars, textVars, writeVars, mergeVars, summaries, extractVars>>
    /\ AtRow
    /\ IsBlankLink(df.rows[index][link_column])
    /\ index' = index + 1
    /\ UNCHANGED <<pc, df, blobs, allocated, visited, attempts, delays>>

\* _is_pdf_url raises: nothing in the loop or its callers up to main catches it.
ClassifierRaises ==
    /\ UNCHANGED <<urlVars, formatVars, textVars, writeVars, mergeVars, summaries, extractVars>>
    /\ AtRow
    /\ ~IsBlankLink(df.rows[index][link_column])
    /\ IsPdfUrl(StrVal(df.rows[index][link_column])) = "ValueError"
    /\ visited' = visited \cup {index}
    /\ pc' = "download_aborted"
    /\ UNCHANGED <<df, index, blobs, allocated, attempts, delays>>

\* else: not a PDF link.
NotPdfRow ==
    /\ UNCHANGED <<urlVars, formatVars, textVars, writeVars, mergeVars, summaries, extractVars>>
    /\ AtRow
    /\ ~IsBlankLink(df.rows[index][link_column])
    /\ IsPdfUrl(StrVal(df.rows[index][link_column])) = "False"
    /\ visited' = visited \cup {index}
    /\ index' = index + 1
    /\ UNCHANGED <<pc, df, blobs, allocated, attempts, delays>>

\* A loop that sleeps after a download only.
SleepsAfterAttempt_OnSuccess(outcome) == IF outcome = "ok" THEN 1 ELSE 0

\* time.sleep(1) follows the if pdf_path / else, whatever _download_pdf
\* returned: the number of sleeps after an attempt.
SleepsAfterAttempt(outcome) == 1

\* A PDF link: an identifier is drawn, the fetch runs, the row is marked,
\* the loop sleeps.
FetchRow ==
    /\ UNCHANGED <<urlVars, formatVars, textVars, writeVars, mergeVars, summaries, extractVars>>
    /\ AtRow
    /\ ~IsBlankLink(df.rows[index][link_column])
    /\ IsPdfUrl(StrVal(df.rows[index][link_column])) = "True"
    /\ \E unique_id \in IdSpace, outcome \in FetchOutcomes :
        /\ allocated' = Append(allocated, unique_id)
        /\ attempts' = Append(attempts,
                [row |-> index, id |-> unique_id, outcome |-> outcome])
        /\ blobs' = DownloadPdf(blobs, df.rows[index][link_column],
                                unique_id, outcome)
        /\ delays' = delays + SleepsAfterAttempt(outcome)
        /\ df' = IF outcome = "ok"
                 THEN MarkDownloaded(df, index, unique_id, FilePath(unique_id))
                 ELSE MarkFailed(df, index)
    /\ visited' = visited \cup {index}
    /\ index' = index + 1
    /\ UNCHANGED pc

\* The loop is over: the function returns df.
FinishDownload ==
    /\ UNCHANGED <<urlVars, formatVars, textVars, writeVars, mergeVars, summaries, extractVars>>
    /\ pc = "download_rows"
    /\ index > Len(df.rows)
    /\ pc' = "download_done"
    /\ UNCHANGED <<df, index, blobs, allocated, visited, attempts, delays>>

NextDownload ==
    \/ StartDownload
    \/ SkipRow
    \/ ClassifierRaises
    \/ NotPdfRow
    \/ FetchRow
    \/ FinishDownload

----------------------------------------------------------------------------
(* The reconciler: update_google_sheet_with_methodology and the sheet write *)

\* The bound on the rows of a sheet handed to the merge.
MaxMergeRows == 2

OldText == <<"o", "l", "d">>

\* A formatted summary of the document unique_id.
SummaryOf(unique_id) == <<"S", unique_id[Len(unique_id)]>>

FailedSentinel == 
    <<"F", "a", "i", "l", "e", "d", " ", "t", "o", " ",
       "g", "e", "n", "e", "r", "a", "t", "e", " ", "s", "u", "m", "m", "a", "r", "y">>

\* The keys the mapping can hold: the stems of the files in papers_pdf_id.
MergeIds == {MkId(1), MkId(2)}

\* What a PDF ID cell of the sheet can hold: nothing, an identifier, or an
\* identifier with blanks around it.
IdCells == {NoneVal, <<>>, MkId(1), <<" ">> \o MkId(1) \o <<" ">>, MkId(2)}

MethodologyCells == {NoneVal, <<>>, OldText}

\* A row is padded with None only from its last non-empty cell on.
MergeRows(columns) ==
    {r \in [Range(columns) ->
                {<<"l">>} \cup IdCells \cup MethodologyCells] :
        /\ r["link"] = <<"l">>
        /\ "PDF ID" \in DOMAIN r => r["PDF ID"] \in IdCells
        /\ "Methodology" \in DOMAIN r =>
            /\ r["Methodology"] \in MethodologyCells
            /\ r["PDF ID"] = NoneVal => r["Methodology"] = NoneVal}

MergeColumns ==
    { <<"link">>, <<"link", "PDF ID">>, <<"link", "PDF ID", "Methodology">> }

MergeTables ==
    UNION {{[columns |-> columns, rows |-> rows] :
                rows \in [1..n -> MergeRows(columns)]}
            : columns \in MergeColumns, n \in 0..MaxMergeRows}

MergeMappings ==
    UNION {{m \in [keys -> {SummaryOf(k) : k \in MergeIds} \cup {FailedSentinel}] :
                \A k \in keys : m[k] \in {SummaryOf(k), FailedSentinel}}
            : keys \in SUBSET MergeIds}

\* The rows that matched are kept, the others dropped (an inner join).
MergeSummaries_DropUnmatched(t, mapping) ==
    LET t1 == SetColumn(t, "Methodology", <<>>)
        keep == {i \in DOMAIN t1.rows :
                    /\ "PDF ID" \in Range(t1.columns)
                    /\ t1.rows[i]["PDF ID"] # NoneVal
                    /\ Strip(t1.rows[i]["PDF ID"]) \in DOMAIN mapping}
        Pos(k) == CHOOSE i \in keep : Cardinality({j \in keep : j <= i}) = k
    IN  [columns |-> t1.columns,
         rows |-> [k \in 1..Cardinality(keep) |->
                    [t1.rows[Pos(k)] EXCEPT
                        !["Methodology"] = mapping[Strip(t1.rows[Pos(k)]["PDF ID"])]]]]

\* df['Methodology'] = '' and the loop that maps the summaries to the rows.
MergeSummaries(t, mapping) ==
    LET t1 == SetColumn(t, "Methodology", <<>>)
    IN  [t1 EXCEPT !.rows =
            [i \in DOMAIN t1.rows |->
                LET row == t1.rows[i]
                IN  IF /\ "PDF ID" \in Range(t1.columns)
                       /\ row["PDF ID"] # NoneVal
                       /\ Strip(row["PDF ID"]) \in DOMAIN mapping
                    THEN [row EXCEPT
                            !["Methodology"] = mapping[Strip(row["PDF ID"])]]
                    ELSE row]]

\* fillna(''), str(value), and the newlines and carriage returns made blanks.
SheetCell(value) ==
    IF value = NoneVal
    THEN <<>>
    ELSE [i \in DOMAIN value |->
            IF value[i] \in {"\n", "\r"} THEN " " ELSE value[i]]

\* The values update_sheet_with_pdf_info sends: the header and the rows.
SheetValues(t) ==
    [columns |-> t.columns,
     rows |-> [i \in DOMAIN t.rows |->
                [c \in DOMAIN t.rows[i] |-> SheetCell(t.rows[i][c])]]]

\* A write that leaves the sheet as it is.
WriteRange_KeepsStore(old, values) == old

\* values().update on the range A1:<end_col><end_row>: the cells of the
\* range take the values sent, the cells of the sheet outside it stay.
WriteRange(old, values) ==
    LET ncols == Len(values.columns)
        nrows == Len(values.rows)
        columns == values.columns \o SubSeq(old.columns, ncols + 1, Len(old.columns))
        OldCell(i, k) ==
            IF i <= Len(old.rows) /\ k <= Len(old.columns)
            THEN old.rows[i][old.columns[k]]
            ELSE NoneVal
        height == IF nrows >= Len(old.rows) THEN nrows ELSE Len(old.rows)
    IN  [columns |-> columns,
         rows |-> [i \in 1..height |->
                    [c \in Range(columns) |->
                        LET k == CHOOSE j \in DOMAIN columns : columns[j] = c
                        IN  IF i <= nrows /\ k <= ncols
                            THEN values.rows[i][c]
                            ELSE OldCell(i, k)]]]

SnapshotFile == "processed_sheet_with_methodology.csv"

InitMerge ==
    /\ pc = "merge_start"
    /\ sheet \in MergeTables
    /\ summaries \in MergeMappings
    /\ csv = <<>>
    /\ read_df = EmptyTable
    /\ df = EmptyTable
    /\ IdleClassifier
    /\ IdleFormat
    /\ IdleText
    /\ IdleWrite
    /\ IdleDownload
    /\ IdleExtract

\* df = self.sheets_reader.read_sheet(); if df.empty: return False.
\* read_sheet returns an empty DataFrame on HttpError.
ReadSheetForMerge ==
    /\ pc = "merge_start"
    /\ \E ok \in BOOLEAN :
        /\ df' = IF ok THEN sheet ELSE EmptyTable
        /\ read_df' = df'
        /\ pc' = IF df'.rows = <<>> THEN "merge_no_data" ELSE "merge_map"
    /\ UNCHANGED <<sheet, summaries, csv>>
    /\ UNCHANGED <<urlVars, formatVars, textVars, writeVars, downloadVars, extractVars>>

\* The Methodology column and the loop over the rows.
MapSummaries ==
    /\ pc = "merge_map"
    /\ df' = MergeSummaries(df, summaries)
    /\ pc' = "merge_update"
    /\ UNCHANGED <<mergeVars, summaries, urlVars, formatVars, textVars, writeVars, downloadVars, extractVars>>

\* ord('A')
OrdA == 65

\* The characters from 'A' on, in the order of their code points.
AsciiFromA ==
    <<"A", "B", "C", "D", "E", "F", "G", "H", "I", "J", "K", "L", "M",
      "N", "O", "P", "Q", "R", "S", "T", "U", "V", "W", "X", "Y", "Z",
      "[", "\\", "]", "^", "_">>

\* chr(code), for the code points from 'A' to '_'.
Chr(code) == AsciiFromA[code - OrdA + 1]

ColumnLetters == SubSeq(AsciiFromA, 1, 26)

\* The label the sheet gives its n-th column: A..Z, then AA, AB, ...
ColumnLabel(n) ==
    IF n <= 26
    THEN <<ColumnLetters[n]>>
    ELSE <<ColumnLetters[(n - 1) \div 26], ColumnLetters[((n - 1) % 26) + 1]>>

worksheet_name == "worksheet_name"

\* end_col, end_row and range_name of the table sent: the header and the
\* rows. The range is kept in its parts, the row as a number.
RangeName(t) ==
    [worksheet |-> worksheet_name,
     start |-> "A1",
     end_col |-> Chr(OrdA + Len(t.columns) - 1),
     end_row |-> Len(t.rows) + 1]

\* The store takes a range whose end column is a column label.
ValidRange(r) == r.end_col \in Range(ColumnLetters)

\* success = self.sheets_reader.update_sheet_with_pdf_info(df), which
\* returns False on HttpError (a range the store rejects included) and on
\* any other exception.
UpdateSheet ==
    /\ pc = "merge_update"
    /\ \E outcome \in {"ok", "HttpError", "Exception"} :
        /\ outcome = "ok" => ValidRange(RangeName(df))
        /\ IF outcome = "ok"
           THEN /\ sheet' = WriteRange(sheet, SheetValues(df))
                /\ pc' = "merge_save"
           ELSE /\ pc' = "merge_update_failed"
                /\ UNCHANGED sheet
        /\ range_name' = IF outcome = "Exception" THEN range_name ELSE RangeName(df)
    /\ UNCHANGED <<df, summaries, csv, read_df, edits>>
    /\ UNCHANGED <<urlVars, formatVars, textVars, downloadVars, extractVars>>

\* if success: df.to_csv('processed_sheet_with_methodology.csv'); return True
SaveLocalCopy ==
    /\ pc = "merge_save"
    /\ csv' = [f \in DOMAIN csv \cup {SnapshotFile} |->
                IF f = SnapshotFile THEN df ELSE csv[f]]
    /\ pc' = "merge_done"
    /\ UNCHANGED <<df, sheet, summaries, read_df>>
    /\ UNCHANGED <<urlVars, formatVars, textVars, writeVars, downloadVars, extractVars>>

NextMerge ==
    \/ ReadSheetForMerge
    \/ MapSummaries
    \/ UpdateSheet
    \/ SaveLocalCopy

\* The bounds on the tables whose range is computed.
MaxColumns == 27
MaxRangeRows == 3

\* The tables of n columns and r rows, the columns named by their position
\* and the cells empty.
RangeTables ==
    {[columns |-> [k \in 1..n |-> k],
      rows |-> [i \in 1..r |-> [c \in 1..n |-> <<>>]]] :
        n \in 1..MaxColumns, r \in 0..MaxRangeRows}

\* update_sheet_with_pdf_info(df) on a sheet that holds nothing yet.
InitRange ==
    /\ pc = "merge_update"
    /\ df \in RangeTables
    /\ sheet = EmptyTable
    /\ csv = <<>>
    /\ read_df = EmptyTable
    /\ summaries = <<>>
    /\ IdleClassifier
    /\ IdleFormat
    /\ IdleText
    /\ IdleWrite
    /\ IdleDownload
    /\ IdleExtract

NextRange == UpdateSheet \/ SaveLocalCopy

\* The sheet write on tables whose header or cells hold line breaks.
MaxSendRows == 2

\* The header of a sheet whose second column title was typed on two lines.
BrokenHeader == "Key\nFindings"

SendColumns == { <<"link">>, <<"link", BrokenHeader>> }

\* The characters of a column title.
HeaderText(c) ==
    CASE c = "link" -> <<"l", "i", "n", "k">>
      [] c = BrokenHeader ->
            <<"K", "e", "y", "\n", "F", "i", "n", "d", "i", "n", "g", "s">>

\* A missing value, the empty text, and texts with and without line breaks.
SendCells == {NoneVal, <<>>, <<"a">>, <<"a", "\n", "b">>, <<"\r">>}

SendTables ==
    UNION {[columns : {columns},
            rows : [1..n -> [Range(columns) -> SendCells]]]
            : columns \in SendColumns, n \in 1..MaxSendRows}

\* update_sheet_with_pdf_info(df) on a sheet that holds nothing yet.
InitSend ==
    /\ pc = "merge_update"
    /\ df \in SendTables
    /\ sheet = EmptyTable
    /\ csv = <<>>
    /\ read_df = EmptyTable
    /\ summaries = <<>>
    /\ IdleClassifier
    /\ IdleFormat
    /\ IdleText
    /\ IdleWrite
    /\ IdleDownload
    /\ IdleExtract

NextSend == UpdateSheet \/ SaveLocalCopy

----------------------------------------------------------------------------
(* The sheet formatter: format_for_google_sheets *)

\* What \s matches, among the characters of the model's texts.
Space == {" ", "\t", "\n", "\r"}

\* The bullet glyph, one character.
Bullet == "bullet"

\* The length of the longest prefix of s made of characters of chars.
RECURSIVE PrefixLen(_, _)
PrefixLen(s, chars) ==
    IF s # <<>> /\ Head(s) \in chars THEN 1 + PrefixLen(Tail(s), chars) ELSE 0

Drop(s, n) == SubSeq(s, n + 1, Len(s))

\* Where the leftmost match of a pattern starts: the least of the indices
\* at which it matches, 0 if there is none.
FirstIndex(hits) ==
    IF hits = {} THEN 0 ELSE CHOOSE i \in hits : \A j \in hits : i <= j

\* re.sub(r'\n\s*\n', '\n', text): from a newline, the greedy \s* runs to
\* the last newline of the white space that follows; the scan goes on
\* after the match.
RECURSIVE CollapseBlankLines(_)
CollapseBlankLines(s) ==
    LET LastNewline(i) ==
            LET run == PrefixLen(Drop(s, i), Space)
                ends == {j \in (i + 1)..(i + run) : s[j] = "\n"}
            IN  IF ends = {} THEN 0 ELSE CHOOSE j \in ends : \A k \in ends : k <= j
        Matches(i) == s[i] = "\n" /\ LastNewline(i) > 0
        first == FirstIndex({i \in 1..Len(s) : Matches(i)})
    IN  IF first = 0
        THEN s
        ELSE SubSeq(s, 1, first) \o CollapseBlankLines(Drop(s, LastNewline(first)))

\* re.sub(r'[ \t]+', ' ', text)
RECURSIVE CollapseBlanks(_)
CollapseBlanks(s) ==
    LET Matches(i) == s[i] \in {" ", "\t"}
        first == FirstIndex({i \in 1..Len(s) : Matches(i)})
    IN  IF first = 0
        THEN s
        ELSE LET run == PrefixLen(Drop(s, first - 1), {" ", "\t"})
             IN  SubSeq(s, 1, first - 1) \o <<" ">>
                    \o CollapseBlanks(Drop(s, first - 1 + run))

\* re.sub(r'^\s*-\s*', '• ', text, flags=re.MULTILINE), scanning a text
\* whose first position is (lineStart) or is not at the start of a line.
RECURSIVE BulletsFrom(_, _)
BulletsFrom(s, lineStart) ==
    LET AtLineStart(i) == IF i = 1 THEN lineStart ELSE s[i - 1] = "\n"
        Dash(i) == i + PrefixLen(Drop(s, i - 1), Space)
        Matches(i) == AtLineStart(i) /\ Dash(i) <= Len(s) /\ s[Dash(i)] = "-"
        first == FirstIndex({i \in 1..Len(s) : Matches(i)})
    IN  IF first = 0
        THEN s
        ELSE LET dash == Dash(first)
                 matched == dash + PrefixLen(Drop(s, dash), Space)
             IN  SubSeq(s, 1, first - 1) \o <<Bullet, " ">>
                    \o BulletsFrom(Drop(s, matched), s[matched] = "\n")

NormalizeBullets(s) == BulletsFrom(s, TRUE)

\* The cap on a cell's text.
SheetCellCap == 45000

TruncationMarker ==
    <<"\n", "\n">> \o <<"[", "S", "u", "m", "m", "a", "r", "y", " ",
       "t", "r", "u", "n", "c", "a", "t", "e", "d", " ", "d", "u", "e", " ",
       "t", "o", " ", "l", "e", "n", "g", "t", "h", "]">>

\* A cap that cuts the text and appends nothing.
CapLength_NoMarker(s) ==
    IF Len(s) > SheetCellCap THEN SubSeq(s, 1, SheetCellCap) ELSE s

\* if len(text) > 45000: text = text[:45000] + marker
CapLength(s) ==
    IF Len(s) > SheetCellCap
    THEN SubSeq(s, 1, SheetCellCap) \o TruncationMarker
    ELSE s

\* format_for_google_sheets(text); text is a str, or None.
format_for_google_sheets(text) ==
    IF text = NoneVal \/ text = <<>>
    THEN <<>>
    ELSE Strip(CapLength(NormalizeBullets(CollapseBlanks(CollapseBlankLines(text)))))

\* The bound on the length of the short texts handed to the formatter.
MaxTextLen == 4

\* The bound on the passes of the formatter over a text.
MaxPasses == 2

FormatChars == {" ", "\n", "-", "a"}

Filler(n) == [i \in 1..n |-> "a"]

\* The texts about as long as the cap: a run of letters one shorter than the
\* cap, as long, or one longer, after nothing, blanks or a dash, and before
\* nothing or an empty line.
LongTexts ==
    {lead \o Filler(SheetCellCap + k) \o trail :
        lead \in {<<>>, <<" ">>, <<" ", " ">>, <<"-">>},
        trail \in {<<>>, <<"\n", "\n">>},
        k \in {-1, 0, 1}}

FormatterInputs ==
    {NoneVal} \cup SeqsUpTo(FormatChars, MaxTextLen) \cup LongTexts

InitFormat ==
    /\ pc = "format"
    /\ raw_text \in FormatterInputs
    /\ formatted = <<>>
    /\ IdleText
    /\ df = EmptyTable
    /\ summaries = <<>>
    /\ IdleClassifier
    /\ IdleDownload
    /\ IdleMerge
    /\ IdleExtract
    /\ IdleWrite

\* One call of format_for_google_sheets, on the text or on what the call
\* before returned.
FormatText ==
    /\ pc = "format"
    /\ Len(formatted) < MaxPasses
    /\ formatted' = Append(formatted,
            format_for_google_sheets(IF formatted = <<>>
                                     THEN raw_text
                                     ELSE formatted[Len(formatted)]))
    /\ UNCHANGED <<pc, raw_text, df, summaries>>
    /\ UNCHANGED <<urlVars, downloadVars, mergeVars, extractVars, writeVars, textVars>>

NextFormat == FormatText

----------------------------------------------------------------------------
(* The extraction engine, direct-upload mode: process_all_pdfs,            *)
(* generate_methodology_summary and its two strategies                     *)

\* The bound on the documents in the storage directory.
MaxDocs == 2

\* The bound on the retrievals of one analysis job.
MaxPolls == 2

\* The statuses the poll loop waits on.
PendingStatuses == {"queued", "in_progress", "requires_action"}

\* The statuses a job can report: the pending ones, completed, and failed
\* for the other terminal ones.
RunStatuses == PendingStatuses \cup {"completed", "failed"}

\* A loop condition that takes requires_action for a terminal status.
StillPending_RequiresActionEnds(status) == status \in {"queued", "in_progress"}

\* while run.status in ['queued', 'in_progress', 'requires_action']
StillPending(status) == status \in PendingStatuses

ExtractIds == {MkId(k) : k \in 1..MaxDocs}

\* pdf_file.name and Path(pdf_name).stem
PdfName(stem) == stem \o DotPdf
Stem(pdf_name) == SubSeq(pdf_name, 1, Len(pdf_name) - Len(DotPdf))

\* uploaded_file.id: the reference the upload of a document returns.
FileRef(stem) == <<"f", "i", "l", "e", "-">> \o stem

\* The texts the assistant's first message and the completion can hold.
ResponseA == <<"-", "A", "\n">>
ResponseB == <<"B">>
AssistantTexts == {<<>>, ResponseA}
ChatTexts == {<<>>, ResponseB}

\* if summary: / if not file_id:
Truthy(value) == value # NoneVal /\ value # <<>>

\* The per-document summary file: the banner naming pdf_name, and the text.
\* A file whose write raised after open() is left incomplete.
SummaryFileContent(pdf_name, text, complete) ==
    [banner |-> pdf_name, text |-> text, complete |-> complete]

\* A strategy that returns its text without writing the file.
WriteSummaryFile_NotWritten(files, pdf_name, text, complete) == files

\* A file opened for appending: the text is added to what the file held.
WriteSummaryFile_Appends(files, pdf_name, text, complete) ==
    [f \in DOMAIN files \cup {Stem(pdf_name)} |->
        IF f = Stem(pdf_name)
        THEN SummaryFileContent(pdf_name,
                (IF f \in DOMAIN files THEN files[f].text ELSE <<>>)
                    \o (IF complete THEN text ELSE <<>>),
                complete)
        ELSE files[f]]

WriteSummaryFile(files, pdf_name, text, complete) ==
    [f \in DOMAIN files \cup {Stem(pdf_name)} |->
        IF f = Stem(pdf_name)
        THEN SummaryFileContent(pdf_name, IF complete THEN text ELSE <<>>, complete)
        ELSE files[f]]

\* A prompt that names the document instead of the upload.
ChatPrompt_NamesDocument(fid, pdf_name) ==
    [uploaded_id |-> pdf_name, note_id |-> pdf_name]

\* The user message of the completion request: its two {file_id} slots.
ChatPrompt(fid, pdf_name) ==
    [uploaded_id |-> fid, note_id |-> fid]

\* The fallback tried whatever the assistant returned.
AfterAssistants_AlwaysChat(a_summary) == "ex_chat"

\* generate_methodology_summary after Strategy A: if summary: return summary,
\* else the fallback.
AfterAssistants(a_summary) ==
    IF Truthy(a_summary) THEN "ex_record" ELSE "ex_chat"

\* What is observed of one document: the status Strategy A ended on, the
\* response it read, what it returned, the prompts Strategy B was called
\* with, and what generate_methodology_summary returned once it has.
NoTrace ==
    [a_status |-> "none", a_response |-> NoneVal, a_summary |-> NoneVal,
     b_prompts |-> <<>>, done |-> FALSE, returned |-> NoneVal]

Current == pdf_files[doc]

Orderings(S) ==
    {f \in [1..Cardinality(S) -> S] : \A i, j \in DOMAIN f : i # j => f[i] # f[j]}

InitExtract ==
    /\ pc = "ex_start"
    /\ \E stems \in SUBSET ExtractIds :
        blobs = [d \in stems |-> [from |-> PdfLink, complete |-> TRUE]]
    /\ summaries = <<>>
    /\ IdleExtract
    /\ df = EmptyTable
    /\ index = 0
    /\ allocated = <<>>
    /\ visited = {}
    /\ attempts = <<>>
    /\ delays = 0
    /\ IdleClassifier
    /\ IdleFormat
    /\ IdleText
    /\ IdleWrite
    /\ IdleMerge

\* process_all_pdfs up to the loop: the glob, in whatever order it lists.
StartProcessAll ==
    /\ pc = "ex_start"
    /\ pdf_files' \in Orderings(DOMAIN blobs)
    /\ trace' = [d \in DOMAIN blobs |-> NoTrace]
    /\ IF DOMAIN blobs = {}
       THEN pc' = "ex_done" /\ doc' = 0
       ELSE pc' = "ex_upload" /\ doc' = 1
    /\ summaries' = <<>>
    /\ UNCHANGED <<file_id, run_status, polls, summary, summary_files>>
    /\ UNCHANGED <<df, urlVars, formatVars, textVars, writeVars, downloadVars, mergeVars>>

\* upload_pdf_to_openai; if not file_id: return None.
UploadPdf ==
    /\ pc = "ex_upload"
    /\ \E ok \in BOOLEAN :
        IF ok
        THEN /\ file_id' = FileRef(Current)
             /\ pc' = "ex_create"
             /\ UNCHANGED summary
        ELSE /\ file_id' = NoneVal
             /\ summary' = NoneVal
             /\ pc' = "ex_record"
    /\ UNCHANGED <<pdf_files, doc, run_status, polls, summary_files, trace>>
    /\ UNCHANGED <<df, summaries, urlVars, formatVars, textVars, writeVars, downloadVars, mergeVars>>

\* Strategy A up to the loop: the assistant, the thread, the message with
\* the attachment and the run; any of them may raise.
CreateRun ==
    /\ pc = "ex_create"
    /\ \E outcome \in RunStatuses \cup {"raise"} :
        IF outcome = "raise"
        THEN /\ trace' = [trace EXCEPT ![Current].a_status = "raised"]
             /\ pc' = "ex_chat"
             /\ UNCHANGED run_status
        ELSE /\ run_status' = outcome
             /\ pc' = "ex_poll"
             /\ UNCHANGED trace
    /\ UNCHANGED <<pdf_files, doc, file_id, polls, summary, summary_files>>
    /\ UNCHANGED <<df, summaries, urlVars, formatVars, textVars, writeVars, downloadVars, mergeVars>>

\* One turn of the while loop: sleep, retrieve.
PollRun ==
    /\ pc = "ex_poll"
    /\ StillPending(run_status)
    /\ polls < MaxPolls
    /\ polls' = polls + 1
    /\ \E outcome \in RunStatuses \cup {"raise"} :
        IF outcome = "raise"
        THEN /\ trace' = [trace EXCEPT ![Current].a_status = "raised"]
             /\ pc' = "ex_chat"
             /\ UNCHANGED run_status
        ELSE /\ run_status' = outcome
             /\ UNCHANGED <<pc, trace>>
    /\ UNCHANGED <<pdf_files, doc, file_id, summary, summary_files>>
    /\ UNCHANGED <<df, summaries, urlVars, formatVars, textVars, writeVars, downloadVars, mergeVars>>

\* The loop is left: completed goes on to the response, any other status
\* makes Strategy A return None.
EndPolling ==
    /\ pc = "ex_poll"
    /\ ~StillPending(run_status)
    /\ trace' = [trace EXCEPT ![Current].a_status = run_status]
    /\ pc' = IF run_status = "completed" THEN "ex_response" ELSE "ex_chat"
    /\ UNCHANGED <<pdf_files, doc, file_id, run_status, polls, summary, summary_files>>
    /\ UNCHANGED <<df, summaries, urlVars, formatVars, textVars, writeVars, downloadVars, mergeVars>>

\* if run.status == 'completed': the messages are listed, the summary file
\* written and the response returned; an exception makes it return None.
SaveAssistantSummary ==
    /\ pc = "ex_response"
    /\ \E outcome \in {"ok", "list_raises", "write_raises"}, text \in AssistantTexts :
        LET returned == IF outcome = "ok" THEN text ELSE NoneVal
        IN  /\ summary_files' =
                IF outcome = "list_raises"
                THEN summary_files
                ELSE WriteSummaryFile(summary_files, PdfName(Current), text,
                                      outcome = "ok")
            /\ summary' = returned
            /\ trace' = [trace EXCEPT
                            ![Current].a_response =
                                IF outcome = "list_raises" THEN NoneVal ELSE text,
                            ![Current].a_summary = returned]
            /\ pc' = AfterAssistants(returned)
    /\ UNCHANGED <<pdf_files, doc, file_id, run_status, polls>>
    /\ UNCHANGED <<df, summaries, urlVars, formatVars, textVars, writeVars, downloadVars, mergeVars>>

\* generate_methodology_summary_with_chat: the completion request, the
\* summary file, the summary returned; an exception makes it return None.
ChatCompletion ==
    /\ pc = "ex_chat"
    /\ trace' = [trace EXCEPT ![Current].b_prompts =
                    Append(@, ChatPrompt(file_id, PdfName(Current)))]
    /\ \E outcome \in {"ok", "create_raises", "write_raises"}, text \in ChatTexts :
        /\ summary_files' =
            IF outcome = "create_raises"
            THEN summary_files
            ELSE WriteSummaryFile(summary_files, PdfName(Current), text,
                                  outcome = "ok")
        /\ summary' = IF outcome = "ok" THEN text ELSE NoneVal
    /\ pc' = "ex_record"
    /\ UNCHANGED <<pdf_files, doc, file_id, run_status, polls>>
    /\ UNCHANGED <<df, summaries, urlVars, formatVars, textVars, writeVars, downloadVars, mergeVars>>

\* A loop that is left at the first document without a summary.
RecordSummary_StopsOnFailure ==
    /\ pc = "ex_record"
    /\ summaries' = [d \in DOMAIN summaries \cup {Current} |->
                        IF d = Current
                        THEN IF Truthy(summary)
                             THEN format_for_google_sheets(summary)
                             ELSE FailedSentinel
                        ELSE summaries[d]]
    /\ IF doc < Len(pdf_files) /\ Truthy(summary)
       THEN pc' = "ex_upload" /\ doc' = doc + 1
       ELSE pc' = "ex_done" /\ UNCHANGED doc
    /\ file_id' = NoneVal
    /\ run_status' = "none"
    /\ polls' = 0
    /\ summary' = NoneVal
    /\ trace' = [trace EXCEPT ![Current].done = TRUE,
                              ![Current].returned = summary]
    /\ UNCHANGED <<pdf_files, summary_files>>
    /\ UNCHANGED <<df, urlVars, formatVars, textVars, writeVars, downloadVars, mergeVars>>

\* The loop body of process_all_pdfs after the summary is back: the entry
\* of the mapping, and the next document.
RecordSummary ==
    /\ pc = "ex_record"
    /\ summaries' = [d \in DOMAIN summaries \cup {Current} |->
                        IF d = Current
                        THEN IF Truthy(summary)
                             THEN format_for_google_sheets(summary)
                             ELSE FailedSentinel
                        ELSE summaries[d]]
    /\ IF doc < Len(pdf_files)
       THEN pc' = "ex_upload" /\ doc' = doc + 1
       ELSE pc' = "ex_done" /\ UNCHANGED doc
    /\ file_id' = NoneVal
    /\ run_status' = "none"
    /\ polls' = 0
    /\ summary' = NoneVal
    /\ trace' = [trace EXCEPT ![Current].done = TRUE,
                              ![Current].returned = summary]
    /\ UNCHANGED <<pdf_files, summary_files>>
    /\ UNCHANGED <<df, urlVars, formatVars, textVars, writeVars, downloadVars, mergeVars>>

NextExtract ==
    \/ StartProcessAll
    \/ UploadPdf
    \/ CreateRun
    \/ PollRun
    \/ EndPolling
    \/ SaveAssistantSummary
    \/ ChatCompletion
    \/ RecordSummary

----------------------------------------------------------------------------
(* The poll loop without a bound: process_all_pdfs with the turns of the   *)
(* loop that follow the turns counted                                      *)

\* The storage directory of these runs: two documents.
PollingDocs == {MkId(1), MkId(2)}

InitPolling ==
    /\ pc = "ex_start"
    /\ blobs = [d \in PollingDocs |-> [from |-> PdfLink, complete |-> TRUE]]
    /\ summaries = <<>>
    /\ IdleExtract
    /\ df = EmptyTable
    /\ index = 0
    /\ allocated = <<>>
    /\ visited = {}
    /\ attempts = <<>>
    /\ delays = 0
    /\ IdleClassifier
    /\ IdleFormat
    /\ IdleText
    /\ IdleWrite
    /\ IdleMerge

\* A loop condition that never lets the loop end.
LoopGoesOn_Always(status) == TRUE

\* The loop condition of the turns past the turns counted.
LoopGoesOn(status) == StillPending(status)

\* A turn of the while loop past the turns counted: sleep, retrieve. The
\* loop has no counter and no deadline.
PollRunUncounted ==
    /\ pc = "ex_poll"
    /\ LoopGoesOn(run_status)
    /\ polls = MaxPolls
    /\ \E outcome \in RunStatuses \cup {"raise"} :
        IF outcome = "raise"
        THEN /\ trace' = [trace EXCEPT ![Current].a_status = "raised"]
             /\ pc' = "ex_chat"
             /\ UNCHANGED run_status
        ELSE /\ run_status' = outcome
             /\ UNCHANGED <<pc, trace>>
    /\ UNCHANGED <<pdf_files, doc, file_id, polls, summary, summary_files>>
    /\ UNCHANGED <<df, summaries, urlVars, formatVars, textVars, writeVars, downloadVars, mergeVars>>

NextPolling ==
    \/ NextExtract
    \/ PollRunUncounted

\* The steps of a document up to its summary.
DocumentStep ==
    \/ StartProcessAll
    \/ UploadPdf
    \/ CreateRun
    \/ PollRun
    \/ PollRunUncounted
    \/ EndPolling
    \/ SaveAssistantSummary
    \/ ChatCompletion

\* RecordSummary as pc shows it: the loop body ends and the loop goes to
\* the next document or is left.
LeaveRecord == pc = "ex_record" /\ pc' \in {"ex_upload", "ex_done"}

----------------------------------------------------------------------------
(* The text variant: batch_text_methodology_processor.py                   *)

\* text[:8000]
TextBudget == 8000

\* __init__ raises ImportError when neither library is installed.
Capabilities ==
    {c \in [pdfplumber : BOOLEAN, PyPDF2 : BOOLEAN] : c.pdfplumber \/ c.PyPDF2}

\* method = 'pdfplumber' if PDFPLUMBER_AVAILABLE else 'PyPDF2'
ChosenMethod(c) == IF c.pdfplumber THEN "pdfplumber" ELSE "PyPDF2"

\* What the pages of a document yield: white space alone, a letter, texts
\* as long as the budget and one character longer; or no text, when the
\* library raises.
PageTexts ==
    {<<" ", "\n">>, <<"a", "\n">>,
     Filler(TextBudget) \o <<"\n">>, Filler(TextBudget + 1) \o <<"\n">>,
     NoneVal}

\* extract_text_from_pdf(pdf_path, method): the text of the pages, stripped;
\* None when the method is not available or the library raises.
ExtractText(method, c, pages) ==
    IF ~(\/ method = "pdfplumber" /\ c.pdfplumber
         \/ method = "PyPDF2" /\ c.PyPDF2)
    THEN NoneVal
    ELSE IF pages = NoneVal THEN NoneVal ELSE Strip(pages)

\* A prompt that carries the whole text.
TextPrompt_WholeText(extracted) == extracted

\* The part of the extracted text the prompt carries: {text[:8000]}
TextPrompt(extracted) ==
    IF Len(extracted) > TextBudget
    THEN SubSeq(extracted, 1, TextBudget)
    ELSE extracted

\* What is recorded of a document of the text variant: the methods
\* extract_text_from_pdf was called with, what it returned, the texts the
\* completions were asked with, and what generate_methodology_summary
\* returned once it has.
NoTextTrace ==
    [methods |-> <<>>, extracted |-> NoneVal, prompts |-> <<>>,
     done |-> FALSE, returned |-> NoneVal]

\* The documents the storage directory of these runs may hold.
TextDocs == {MkId(1), MkId(2)}

InitText ==
    /\ pc = "tx_start"
    /\ \E stems \in SUBSET TextDocs :
        blobs = [d \in stems |-> [from |-> PdfLink, complete |-> TRUE]]
    /\ available \in Capabilities
    /\ text_trace = <<>>
    /\ summaries = <<>>
    /\ IdleExtract
    /\ df = EmptyTable
    /\ index = 0
    /\ allocated = <<>>
    /\ visited = {}
    /\ attempts = <<>>
    /\ delays = 0
    /\ IdleClassifier
    /\ IdleFormat
    /\ IdleWrite
    /\ IdleMerge

\* process_all_pdfs up to the loop.
StartTextBatch ==
    /\ pc = "tx_start"
    /\ pdf_files' \in Orderings(DOMAIN blobs)
    /\ text_trace' = [d \in DOMAIN blobs |-> NoTextTrace]
    /\ IF DOMAIN blobs = {}
       THEN pc' = "tx_done" /\ doc' = 0
       ELSE pc' = "tx_extract" /\ doc' = 1
    /\ summaries' = <<>>
    /\ UNCHANGED <<available, file_id, run_status, polls, summary, summary_files, trace>>
    /\ UNCHANGED <<df, urlVars, formatVars, writeVars, downloadVars, mergeVars>>

\* generate_methodology_summary up to 'if not text: return None'.
ExtractPdfText ==
    /\ pc = "tx_extract"
    /\ \E pages \in PageTexts :
        LET method == ChosenMethod(available)
            extracted == ExtractText(method, available, pages)
        IN  /\ text_trace' = [text_trace EXCEPT
                                ![Current].methods = Append(@, method),
                                ![Current].extracted = extracted]
            /\ IF Truthy(extracted)
               THEN pc' = "tx_complete" /\ UNCHANGED summary
               ELSE pc' = "tx_record" /\ summary' = NoneVal
    /\ UNCHANGED <<available, pdf_files, doc, file_id, run_status, polls, summary_files, trace>>
    /\ UNCHANGED <<df, summaries, urlVars, formatVars, writeVars, downloadVars, mergeVars>>

\* The completion request, the summary file, the summary returned; an
\* exception makes generate_methodology_summary return None.
TextCompletion ==
    /\ pc = "tx_complete"
    /\ text_trace' = [text_trace EXCEPT ![Current].prompts =
                        Append(@, TextPrompt(text_trace[Current].extracted))]
    /\ \E outcome \in {"ok", "create_raises", "write_raises"}, text \in ChatTexts :
        /\ summary_files' =
            IF outcome = "create_raises"
            THEN summary_files
            ELSE WriteSummaryFile(summary_files, PdfName(Current), text,
                                  outcome = "ok")
        /\ summary' = IF outcome = "ok" THEN text ELSE NoneVal
    /\ pc' = "tx_record"
    /\ UNCHANGED <<available, pdf_files, doc, file_id, run_status, polls, trace>>
    /\ UNCHANGED <<df, summaries, urlVars, formatVars, writeVars, downloadVars, mergeVars>>

\* The loop body of process_all_pdfs after the summary is back.
RecordTextSummary ==
    /\ pc = "tx_record"
    /\ summaries' = [d \in DOMAIN summaries \cup {Current} |->
                        IF d = Current
                        THEN IF Truthy(summary)
                             THEN format_for_google_sheets(summary)
                             ELSE FailedSentinel
                        ELSE summaries[d]]
    /\ IF doc < Len(pdf_files)
       THEN pc' = "tx_extract" /\ doc' = doc + 1
       ELSE pc' = "tx_done" /\ UNCHANGED doc
    /\ summary' = NoneVal
    /\ text_trace' = [text_trace EXCEPT ![Current].done = TRUE,
                                        ![Current].returned = summary]
    /\ UNCHANGED <<available, pdf_files, file_id, run_status, polls, summary_files, trace>>
    /\ UNCHANGED <<df, urlVars, formatVars, writeVars, downloadVars, mergeVars>>

NextText ==
    \/ StartTextBatch
    \/ ExtractPdfText
    \/ TextCompletion
    \/ RecordTextSummary

----------------------------------------------------------------------------
(* The batch run: run_batch_processing, run after run, beside the other    *)
(* users of the sheet                                                      *)

\* The sheets a batch run starts on: one row, carrying the identifier of a
\* stored document.
BatchSheets ==
    {t \in MergeTables :
        /\ Len(t.rows) = 1
        /\ "PDF ID" \in Range(t.columns)
        /\ t.rows[1]["PDF ID"] = MkId(1)}

\* What another user of the sheet types into a cell, and the link of a row
\* another user appends.
ExternalText == <<"e", "x", "t">>
ExternalLink == <<"n", "e", "w">>

HasExternalRow(t) == \E i \in DOMAIN t.rows : t.rows[i]["link"] = ExternalLink

\* The storage directory of a batch run: empty, or holding that document.
BatchDocs == {MkId(1)}

InitBatch ==
    /\ pc = "ex_start"
    /\ \E stems \in SUBSET BatchDocs :
        blobs = [d \in stems |-> [from |-> PdfLink, complete |-> TRUE]]
    /\ sheet \in BatchSheets
    /\ csv = <<>>
    /\ read_df = EmptyTable
    /\ summaries = <<>>
    /\ IdleExtract
    /\ df = EmptyTable
    /\ index = 0
    /\ allocated = <<>>
    /\ visited = {}
    /\ attempts = <<>>
    /\ delays = 0
    /\ IdleClassifier
    /\ IdleFormat
    /\ IdleText
    /\ IdleWrite

\* A run that goes on to the sheet with an empty mapping.
AfterProcessAll_AlwaysMerges ==
    /\ pc = "ex_done"
    /\ pc' = "merge_start"
    /\ UNCHANGED <<df, summaries, urlVars, formatVars, textVars, writeVars, downloadVars, mergeVars, extractVars>>

\* summaries = self.process_all_pdfs(); if not summaries: return; else
\* self.update_google_sheet_with_methodology(summaries).
AfterProcessAll ==
    /\ pc = "ex_done"
    /\ pc' = IF summaries = <<>> THEN "batch_done" ELSE "merge_start"
    /\ UNCHANGED <<df, summaries, urlVars, formatVars, textVars, writeVars, downloadVars, mergeVars, extractVars>>

BatchEnded ==
    pc \in {"batch_done", "merge_no_data", "merge_update_failed", "merge_done"}

\* main() once more: a new process, the directories and the sheet as the
\* run before left them.
RunBatchAgain ==
    /\ BatchEnded
    /\ pc' = "ex_start"
    /\ df' = EmptyTable
    /\ read_df' = EmptyTable
    /\ summaries' = <<>>
    /\ edits' = {}
    /\ UNCHANGED <<sheet, csv, range_name>>
    /\ UNCHANGED <<urlVars, formatVars, textVars, downloadVars, extractVars>>

\* The run has read the sheet and not yet written it.
ReadNotWritten == pc \in {"merge_map", "merge_update"}

\* The other users edit the sheet while the run has not written it.
EditsAllowed == ~BatchEnded /\ pc # "merge_save"

\* Another user overwrites the link cell of a row of the sheet.
ExternalEdit ==
    /\ EditsAllowed
    /\ \E i \in DOMAIN sheet.rows :
        /\ sheet.rows[i]["link"] \notin {ExternalText, ExternalLink}
        /\ sheet' = SetCell(sheet, i, "link", ExternalText)
        /\ edits' = edits \cup
            {[kind |-> "cell", row |-> i, after_read |-> ReadNotWritten]}
    /\ UNCHANGED <<pc, df, summaries, csv, read_df, range_name>>
    /\ UNCHANGED <<urlVars, formatVars, textVars, downloadVars, extractVars>>

\* Another user appends a row to the sheet.
ExternalAppend ==
    /\ EditsAllowed
    /\ ~HasExternalRow(sheet)
    /\ sheet' = [sheet EXCEPT !.rows =
                    Append(@, [c \in Range(sheet.columns) |->
                                IF c = "link" THEN ExternalLink ELSE NoneVal])]
    /\ edits' = edits \cup
        {[kind |-> "row", row |-> Len(sheet.rows) + 1,
          after_read |-> ReadNotWritten]}
    /\ UNCHANGED <<pc, df, summaries, csv, read_df, range_name>>
    /\ UNCHANGED <<urlVars, formatVars, textVars, downloadVars, extractVars>>

NextBatch ==
    \/ NextExtract
    \/ AfterProcessAll
    \/ NextMerge
    \/ RunBatchAgain
    \/ ExternalEdit
    \/ ExternalAppend

----------------------------------------------------------------------------
(* The download workflows: process_sheet_with_pdf_download of              *)
(* google_sheets_reader.py and run of papers_processor.py                  *)

\* The sheets a download workflow starts on.
WorkflowSheets == {t \in DownloadTables : Len(t.rows) <= 2}

ProcessedFile == "processed_sheet_data.csv"
PapersFile == "processed_papers.csv"

InitWorkflow ==
    /\ pc = "wf_start"
    /\ sheet \in WorkflowSheets
    /\ csv = <<>>
    /\ read_df = EmptyTable
    /\ df = EmptyTable
    /\ summaries = <<>>
    /\ IdleDownload
    /\ IdleClassifier
    /\ IdleFormat
    /\ IdleText
    /\ IdleWrite
    /\ IdleExtract

\* df = self.read_sheet(); if df.empty: return. read_sheet returns an empty
\* DataFrame on HttpError.
ReadSheetForDownload ==
    /\ pc = "wf_start"
    /\ \E ok \in BOOLEAN :
        /\ df' = IF ok THEN sheet ELSE EmptyTable
        /\ read_df' = df'
        /\ pc' = IF df'.rows = <<>> THEN "wf_no_data" ELSE "download_start"
    /\ UNCHANGED <<sheet, csv, summaries>>
    /\ UNCHANGED <<urlVars, formatVars, textVars, writeVars, downloadVars, extractVars>>

\* process_links_and_download_pdfs has returned df.
Processed == pc \in {"download_done", "download_returned"}

\* update_success = self.update_sheet_with_pdf_info(df) in
\* process_sheet_with_pdf_download: False on HttpError and on any other
\* exception, and the workflow goes on.
UpdateSheetAfterDownload ==
    /\ Processed
    /\ \E outcome \in {"ok", "HttpError", "Exception"} :
        /\ outcome = "ok" => ValidRange(RangeName(df))
        /\ sheet' = IF outcome = "ok"
                    THEN WriteRange(sheet, SheetValues(df))
                    ELSE sheet
        /\ range_name' = IF outcome = "Exception" THEN range_name ELSE RangeName(df)
    /\ pc' = "wf_save"
    /\ UNCHANGED <<df, summaries, csv, read_df, edits>>
    /\ UNCHANGED <<urlVars, formatVars, textVars, downloadVars, extractVars>>

\* df.to_csv('processed_sheet_data.csv', index=False); return df
SaveProcessedCsv ==
    /\ pc = "wf_save"
    /\ csv' = [f \in DOMAIN csv \cup {ProcessedFile} |->
                IF f = ProcessedFile THEN df ELSE csv[f]]
    /\ pc' = "wf_done"
    /\ UNCHANGED <<df, sheet, summaries, read_df>>
    /\ UNCHANGED <<urlVars, formatVars, textVars, writeVars, downloadVars, extractVars>>

WorkflowEnded == pc \in {"wf_done", "wf_no_data", "wf_aborted", "download_aborted"}

\* The script is run once more: the sheet and papers_pdf_id are as the run
\* before left them. The fetches of all runs are kept as history.
RunWorkflowAgain ==
    /\ WorkflowEnded
    /\ Len(attempts) < MaxRows
    /\ pc' = "wf_start"
    /\ df' = EmptyTable
    /\ read_df' = EmptyTable
    /\ index' = 0
    /\ visited' = {}
    /\ UNCHANGED <<sheet, csv, summaries, blobs, allocated, attempts, delays>>
    /\ UNCHANGED <<urlVars, formatVars, textVars, writeVars, extractVars>>

NextWorkflow ==
    \/ ReadSheetForDownload
    \/ NextDownload
    \/ UpdateSheetAfterDownload
    \/ SaveProcessedCsv
    \/ RunWorkflowAgain

\* success = self.update_sheet(df) in PapersProcessor.run: update_sheet
\* returns False on HttpError; any other exception leaves update_sheet and
\* run.
UpdateSheetPapers ==
    /\ Processed
    /\ \E outcome \in {"ok", "HttpError", "Exception"} :
        /\ outcome = "ok" => ValidRange(RangeName(df))
        /\ sheet' = IF outcome = "ok"
                    THEN WriteRange(sheet, SheetValues(df))
                    ELSE sheet
        /\ range_name' = IF outcome = "Exception" THEN range_name ELSE RangeName(df)
        /\ pc' = IF outcome = "Exception" THEN "wf_aborted" ELSE "wf_save"
    /\ UNCHANGED <<df, summaries, csv, read_df, edits>>
    /\ UNCHANGED <<urlVars, formatVars, textVars, downloadVars, extractVars>>

\* df.to_csv('processed_papers.csv', index=False)
SavePapersCsv ==
    /\ pc = "wf_save"
    /\ csv' = [f \in DOMAIN csv \cup {PapersFile} |->
                IF f = PapersFile THEN df ELSE csv[f]]
    /\ pc' = "wf_done"
    /\ UNCHANGED <<df, sheet, summaries, read_df>>
    /\ UNCHANGED <<urlVars, formatVars, textVars, writeVars, downloadVars, extractVars>>

NextPapers ==
    \/ ReadSheetForDownload
    \/ NextDownload
    \/ UpdateSheetPapers
    \/ SavePapersCsv

----------------------------------------------------------------------------
(* The specifications *)

vars ==
    <<pc, df, summaries, urlVars, downloadVars, mergeVars, extractVars,
      formatVars, writeVars, textVars>>

InitClassifier ==
    /\ pc = "classify"
    /\ url \in ClassifierInputs
    /\ result = "unset"
    /\ IdleFormat
    /\ IdleText
    /\ IdleWrite
    /\ df = EmptyTable
    /\ IdleDownload
    /\ IdleMerge
    /\ IdleExtract
    /\ summaries = <<>>

\* One call of _is_pdf_url.
Classify ==
    /\ pc = "classify"
    /\ result' = IsPdfUrl(url)
    /\ pc' = "classified"
    /\ UNCHANGED <<url, df, downloadVars, mergeVars, summaries, extractVars>>
    /\ UNCHANGED <<formatVars, textVars, writeVars>>

NextClassifier == Classify

SpecClassifier == InitClassifier /\ [][NextClassifier]_vars

SpecDownload == InitDownload /\ [][NextDownload]_vars

SpecMerge == InitMerge /\ [][NextMerge]_vars

SpecExtract == InitExtract /\ [][NextExtract]_vars

SpecBatch == InitBatch /\ [][NextBatch]_vars

\* The program is sequential and nothing but the job holds it up: a step
\* that can be taken is taken.
RunsOn == WF_vars(DocumentStep) /\ WF_pc(LeaveRecord)

SpecPolling == InitPolling /\ [][NextPolling]_vars /\ RunsOn

SpecFormat == InitFormat /\ [][NextFormat]_vars

SpecRange == InitRange /\ [][NextRange]_vars

SpecSend == InitSend /\ [][NextSend]_vars

SpecText == InitText /\ [][NextText]_vars

SpecWorkflow == InitWorkflow /\ [][NextWorkflow]_vars

SpecPapers == InitWorkflow /\ [][NextPapers]_vars

----------------------------------------------------------------------------
(* The claims about the reconciler *)

\* The merge loop is over.
Merged ==
    pc \in {"merge_update", "merge_save", "merge_update_failed", "merge_done"}

HasIdColumn == "PDF ID" \in Range(read_df.columns)

\* The Methodology cell of row i in the table as read, the empty text when
\* the table had no such column or the cell was missing.
MethodologyRead(i) ==
    IF "Methodology" \in Range(read_df.columns)
    THEN SheetCell(read_df.rows[i]["Methodology"])
    ELSE <<>>

\* The identifier row i carries: its PDF ID cell without the blanks around it.
RowId(i) == Strip(read_df.rows[i]["PDF ID"])

\* The mapping holds the identifier of row i.
KeyedRow(i) ==
    /\ HasIdColumn
    /\ read_df.rows[i]["PDF ID"] # NoneVal
    /\ RowId(i) # <<>>
    /\ RowId(i) \in DOMAIN summaries

\* C1 as stated: after the merge, every row whose PDF ID is missing, empty
\* or no key of the mapping has the Methodology text it had in the table
\* read from the store (a column or cell that was absent counts as empty,
\* and an identifier is compared without the blanks around it).
C1_UnmatchedRowsKeepMethodology ==
    Merged =>
        \A i \in DOMAIN df.rows :
            ~KeyedRow(i) => df.rows[i]["Methodology"] = MethodologyRead(i)

\* C2: after the merge, the table has the rows of the table read, in the
\* same order, every cell of every other column is as read, the columns are
\* those read (with Methodology added last when it was absent), and every
\* row whose non-empty PDF ID is a key of the mapping holds the mapped value
\* in its Methodology cell.
C2_MergeSetsKeyedRowsOnly ==
    Merged =>
        /\ Len(df.rows) = Len(read_df.rows)
        /\ df.columns \in {read_df.columns, Append(read_df.columns, "Methodology")}
        /\ \A i \in DOMAIN df.rows :
            /\ i \in DOMAIN read_df.rows
            /\ \A c \in Range(read_df.columns) \ {"Methodology"} :
                    df.rows[i][c] = read_df.rows[i][c]
            /\ KeyedRow(i) =>
                    df.rows[i]["Methodology"] = summaries[RowId(i)]

\* C2's case: a table of two rows was merged, one row keyed by the mapping
\* and one not.
C2_Witness ==
    /\ pc = "merge_done"
    /\ \E i, j \in DOMAIN df.rows :
        /\ KeyedRow(i)
        /\ df.rows[i]["Methodology"] = SummaryOf(RowId(i))
        /\ ~KeyedRow(j)
        /\ df.rows[j]["PDF ID"] = MkId(2)

\* C3 as stated: after the merge the local snapshot of the merged table is
\* written on every run, also when the remote sheet write failed.
C3_SnapshotAlsoOnFailedWrite ==
    pc \in {"merge_update_failed", "merge_done"} =>
        /\ SnapshotFile \in DOMAIN csv
        /\ csv[SnapshotFile] = df

----------------------------------------------------------------------------
(* The claims about the download phase *)

InDownloadPhase ==
    pc \in {"download_rows", "download_done", "download_aborted"}

DownloadEnded == pc \in {"download_done", "download_aborted"}

YesRows == {i \in DOMAIN df.rows : df.rows[i]["PDF Available"] = Yes}

\* C4: at every point during and after the download phase, a row with
\* PDF Available = Yes has a non-empty 8-character PDF ID, the PDF Path
\* papers_pdf_id/<PDF ID>.pdf and a file of that name in the storage
\* directory, and a row with No or Failed has an empty PDF ID and PDF Path.
C4_DownloadRowInvariant ==
    InDownloadPhase =>
        \A i \in DOMAIN df.rows :
            LET r == df.rows[i]
            IN  /\ r["PDF Available"] = Yes =>
                    /\ r["PDF ID"] # <<>>
                    /\ Len(r["PDF ID"]) = IdLength
                    /\ r["PDF Path"] = FilePath(r["PDF ID"])
                    /\ r["PDF ID"] \in DOMAIN blobs
                /\ r["PDF Available"] \in {No, Failed} =>
                    /\ r["PDF ID"] = <<>>
                    /\ r["PDF Path"] = <<>>

\* C4's case: the phase is over with a downloaded row, a failed row and a
\* row that was not a PDF.
C4_Witness ==
    /\ pc = "download_done"
    /\ \E i, j, k \in DOMAIN df.rows :
        /\ df.rows[i]["PDF Available"] = Yes
        /\ df.rows[j]["PDF Available"] = Failed
        /\ df.rows[k]["PDF Available"] = No

\* C5 as stated: after the download phase no two rows with PDF Available =
\* Yes carry the same PDF ID, whatever the allocator returned.
C5_UniqueIdsAnyAllocation ==
    pc = "download_done" =>
        \A i, j \in YesRows :
            i # j => df.rows[i]["PDF ID"] # df.rows[j]["PDF ID"]

DrawsDistinct ==
    \A m, n \in DOMAIN allocated : m # n => allocated[m] # allocated[n]

\* C5 as amended: during and after the download phase, whenever the
\* identifiers the allocator returned in the run are pairwise distinct, no
\* two rows with PDF Available = Yes carry the same PDF ID.
C5_UniqueIdsIfDrawsDistinct ==
    (InDownloadPhase /\ DrawsDistinct) =>
        \A i, j \in YesRows :
            i # j => df.rows[i]["PDF ID"] # df.rows[j]["PDF ID"]

\* C5's case: the phase is over, two rows were downloaded, under distinct draws.
C5_Witness ==
    /\ pc = "download_done"
    /\ DrawsDistinct
    /\ Cardinality(YesRows) >= 2

\* C6 as stated: once the phase has ended, a row whose fetch failed is
\* Failed with an empty PDF ID and PDF Path, and every later row with a link
\* was classified and, when classified as a PDF, fetched.
C6_FetchFailureIsolated ==
    DownloadEnded =>
        \A k \in DOMAIN attempts :
            attempts[k].outcome # "ok" =>
                LET i == attempts[k].row
                IN  /\ df.rows[i]["PDF Available"] = Failed
                    /\ df.rows[i]["PDF ID"] = <<>>
                    /\ df.rows[i]["PDF Path"] = <<>>
                    /\ \A j \in (i + 1)..Len(df.rows) :
                        ~IsBlankLink(df.rows[j][link_column]) =>
                            /\ j \in visited
                            /\ IsPdfUrl(StrVal(df.rows[j][link_column])) = "True"
                                => \E m \in DOMAIN attempts : attempts[m].row = j

----------------------------------------------------------------------------
(* The claims about the extraction engine *)

BInvoked(d) == trace[d].b_prompts # <<>>

\* C9 as stated: Strategy B is never invoked for a document whose Strategy A
\* job reached 'completed', and the summary returned for that document is
\* the response text Strategy A read.
C9_NoFallbackAfterCompleted ==
    \A d \in DOMAIN trace :
        trace[d].a_status = "completed" =>
            /\ ~BInvoked(d)
            /\ trace[d].done => trace[d].returned = trace[d].a_response

\* C9 amended: the strategies run in the order A then B and the first
\* success wins, success being a non-empty summary returned by Strategy A
\* (job completed, response read, summary file written). Strategy B is
\* invoked only after Strategy A ended without such a summary, never for a
\* document Strategy A returned one for, and the summary returned for such
\* a document is Strategy A's response text.
C9_FirstSuccessWins ==
    \A d \in DOMAIN trace :
        /\ BInvoked(d) =>
            /\ trace[d].a_status \in {"raised", "completed", "failed"}
            /\ ~Truthy(trace[d].a_summary)
        /\ Truthy(trace[d].a_summary) =>
            /\ trace[d].a_status = "completed"
            /\ trace[d].a_summary = trace[d].a_response
            /\ ~BInvoked(d)
            /\ trace[d].done => trace[d].returned = trace[d].a_summary

\* A document is done, Strategy A returned its response and Strategy B was
\* not invoked.
C9_Witness ==
    \E d \in DOMAIN trace :
        /\ trace[d].done
        /\ trace[d].a_status = "completed"
        /\ trace[d].returned = ResponseA
        /\ ~BInvoked(d)

\* C10: when Strategy A's job ends in a terminal status other than
\* 'completed', Strategy B is invoked exactly once for the document, with a
\* prompt holding the upload reference obtained for that document; it is
\* never invoked a second time, whatever its outcome.
C10_FallbackOnceWithFileRef ==
    \A d \in DOMAIN trace :
        /\ Len(trace[d].b_prompts) <= 1
        /\ \A k \in DOMAIN trace[d].b_prompts :
            /\ trace[d].b_prompts[k].uploaded_id = FileRef(d)
            /\ trace[d].b_prompts[k].note_id = FileRef(d)
        /\ (trace[d].done /\ trace[d].a_status = "failed") =>
            Len(trace[d].b_prompts) = 1

\* A document is done whose job failed and whose fallback failed too: the
\* fallback was invoked once.
C10_Witness ==
    \E d \in DOMAIN trace :
        /\ trace[d].done
        /\ trace[d].a_status = "failed"
        /\ Len(trace[d].b_prompts) = 1
        /\ trace[d].b_prompts[1].uploaded_id = FileRef(d)
        /\ trace[d].returned = NoneVal

\* The upload raised: the document is done and Strategy A never got a status.
UploadFailed(d) == trace[d].done /\ trace[d].a_status = "none"

\* C11: for every document whose Strategy A attempt fails by a thrown error
\* at the upload, at the creation of the job or while polling, Strategy B is
\* invoked.
C11_ErrorInStrategyAFallsBack ==
    \A d \in DOMAIN trace :
        (UploadFailed(d) \/ (trace[d].done /\ trace[d].a_status = "raised"))
            => BInvoked(d)

\* C12: once process_all_pdfs has returned, the mapping holds exactly one
\* entry for every document of the storage directory: the formatted summary
\* if a strategy returned one, the sentinel otherwise; every document was
\* processed, whatever happened to the ones before it.
C12_OneEntryPerDocument ==
    pc = "ex_done" =>
        /\ DOMAIN summaries = DOMAIN blobs
        /\ \A d \in DOMAIN blobs :
            /\ trace[d].done
            /\ summaries[d] = IF Truthy(trace[d].returned)
                              THEN format_for_google_sheets(trace[d].returned)
                              ELSE FailedSentinel

\* The run has returned, its first document failed and its second one has a
\* formatted summary.
C12_Witness ==
    /\ pc = "ex_done"
    /\ Len(pdf_files) = 2
    /\ summaries[pdf_files[1]] = FailedSentinel
    /\ trace[pdf_files[2]].returned = ResponseA
    /\ summaries[pdf_files[2]] = format_for_google_sheets(ResponseA)
    /\ summaries[pdf_files[2]] # ResponseA

\* The summary file of document d holds the raw text.
FileHolds(d, text) ==
    /\ d \in DOMAIN summary_files
    /\ summary_files[d] = SummaryFileContent(PdfName(d), text, TRUE)

\* C13: whenever a strategy returns a summary for a document, the file
\* <stem>_methodology_summary.txt holding that raw text is already written:
\* when Strategy A has returned, when the summary is back in
\* process_all_pdfs, and from then on through the merge, a failed sheet
\* write included.
C13_SummaryFileBeforeReturn ==
    \A d \in DOMAIN trace :
        /\ (trace[d].a_summary # NoneVal /\ ~BInvoked(d) /\ ~trace[d].done)
            => FileHolds(d, trace[d].a_summary)
        /\ (pc = "ex_record" /\ d = Current /\ summary # NoneVal)
            => FileHolds(d, summary)
        /\ (trace[d].done /\ trace[d].returned # NoneVal)
            => FileHolds(d, trace[d].returned)

\* The sheet write has failed and the file of the document holds the summary
\* the fallback returned.
C13_Witness ==
    /\ pc = "merge_update_failed"
    /\ \E d \in DOMAIN trace :
        /\ trace[d].done
        /\ trace[d].returned = ResponseB
        /\ FileHolds(d, ResponseB)

\* C16: for every table of N >= 1 columns and R rows, the sheet write is
\* addressed to the range from A1 to the label of the N-th column and the
\* row R + 1: the header, the R rows and the N columns, no more.
C16_RangeCoversTable ==
    range_name # NoRange =>
        /\ range_name.start = "A1"
        /\ <<range_name.end_col>> = ColumnLabel(Len(df.columns))
        /\ range_name.end_row = Len(df.rows) + 1

----------------------------------------------------------------------------
(* The claims about the download workflows *)

\* Row i of the sheet as read carries the identifier of a stored document.
HadStoredId(i) ==
    /\ "PDF ID" \in Range(read_df.columns)
    /\ read_df.rows[i]["PDF ID"] \in DOMAIN blobs
    /\ blobs[read_df.rows[i]["PDF ID"]].complete

\* The three columns have been set up by this run's download phase.
ColumnsSetUp ==
    pc \in {"download_rows", "download_done", "download_aborted",
            "wf_save", "wf_done"}

\* C18: a stored document is immutable: in a re-run of the download phase a
\* row that was read with the 'PDF ID' of a stored blob keeps that ID, and
\* its document is not fetched again.
C18_StoredDocumentKept ==
    ColumnsSetUp =>
        \A i \in DOMAIN read_df.rows :
            HadStoredId(i) =>
                /\ df.rows[i]["PDF ID"] = read_df.rows[i]["PDF ID"]
                /\ i \in visited =>
                    \A k \in DOMAIN attempts :
                        attempts[k].row = i =>
                            attempts[k].id = read_df.rows[i]["PDF ID"]

\* C20: in a download workflow, whenever the sheet read returned rows and
\* the run has come to the sheet update, the local CSV snapshot of the
\* table is written by the end of the run, however the update ended.
C20_SnapshotAfterEveryUpdate ==
    (pc \in {"wf_done", "wf_aborted"} /\ read_df.rows # <<>>) =>
        /\ PapersFile \in DOMAIN csv
        /\ csv[PapersFile] = df



\* The edit is not in the sheet.
EditAbsent(e) ==
    IF e.kind = "cell"
    THEN sheet.rows[e.row]["link"] # ExternalText
    ELSE ~HasExternalRow(sheet)

\* C17 as stated: every edit another user made to the sheet during the run,
\* before the run's write, is absent from the sheet after the write.
C17_EveryEditClobbered ==
    pc = "merge_save" => \A e \in edits : EditAbsent(e)

\* C17 amended: the write takes no account of the state of the sheet: after
\* it every cell of the range written holds the value computed from the
\* table as the run read it, so every edit made to a cell of that range
\* between the run's read and its write is absent.
C17_EditsAfterReadInRangeClobbered ==
    pc = "merge_save" =>
        /\ df = MergeSummaries(read_df, summaries)
        /\ \A i \in DOMAIN df.rows :
            /\ i \in DOMAIN sheet.rows
            /\ \A c \in Range(df.columns) :
                /\ c \in DOMAIN sheet.rows[i]
                /\ sheet.rows[i][c] = SheetCell(df.rows[i][c])
        /\ \A e \in edits :
            (e.kind = "cell" /\ e.after_read) => EditAbsent(e)

\* The sheet was written after another user edited a cell the run had read.
C17_Witness ==
    /\ pc = "merge_save"
    /\ \E e \in edits :
        /\ e.kind = "cell"
        /\ e.after_read
        /\ read_df.rows[e.row]["link"] # ExternalText
        /\ EditAbsent(e)

\* The sheet write of this run has succeeded.
SheetWritten == pc \in {"merge_save", "merge_done"}

\* C19 as stated: after any number of runs, the summary file of a document
\* and the Methodology cell of its row hold only the result of the latest
\* run for that ID: a complete file holds a text the latest run wrote, and
\* the cell holds the latest run's entry of the mapping.
C19_LatestRunOnly ==
    BatchEnded =>
        \A d \in DOMAIN trace :
            trace[d].done =>
                /\ (d \in DOMAIN summary_files /\ summary_files[d].complete)
                    => summary_files[d].text
                            \in {trace[d].returned, trace[d].a_summary}
                /\ \A i \in DOMAIN sheet.rows :
                    (d \in DOMAIN summaries /\ sheet.rows[i]["PDF ID"] = d)
                        => /\ "Methodology" \in DOMAIN sheet.rows[i]
                           /\ sheet.rows[i]["Methodology"] =
                                SheetCell(summaries[d])

\* C19 amended: a re-run overwrites and never appends. Once a run has
\* recorded a document, the mapping has one entry for every document, which
\* is that run's; when a strategy of that run returned a summary the file
\* of the document holds that text and nothing else; and once that run's
\* sheet write has succeeded the Methodology cell of every row it keyed is
\* that run's entry and nothing else.
C19_RerunOverwrites ==
    /\ \A d \in DOMAIN summaries :
        /\ d \in DOMAIN trace
        /\ trace[d].done
        /\ summaries[d] = IF Truthy(trace[d].returned)
                          THEN format_for_google_sheets(trace[d].returned)
                          ELSE FailedSentinel
        /\ trace[d].returned # NoneVal =>
            summary_files[d] =
                SummaryFileContent(PdfName(d), trace[d].returned, TRUE)
    /\ pc \in {"ex_done", "merge_start"} => DOMAIN summaries = DOMAIN blobs
    /\ SheetWritten =>
        \A i \in DOMAIN read_df.rows :
            KeyedRow(i) =>
                sheet.rows[i]["Methodology"] = SheetCell(summaries[RowId(i)])

\* A later run has written the sheet: the snapshot of an earlier run holds
\* the fallback's summary for the document, and its file and its cell now
\* hold the assistant's summary of this run alone.
C19_Witness ==
    /\ pc = "merge_save"
    /\ SnapshotFile \in DOMAIN csv
    /\ csv[SnapshotFile].rows[1]["PDF ID"] = MkId(1)
    /\ csv[SnapshotFile].rows[1]["Methodology"] =
            format_for_google_sheets(ResponseB)
    /\ trace[MkId(1)].returned = ResponseA
    /\ FileHolds(MkId(1), ResponseA)
    /\ sheet.rows[1]["Methodology"] =
            SheetCell(format_for_google_sheets(ResponseA))
    /\ SheetCell(format_for_google_sheets(ResponseA))
            # format_for_google_sheets(ResponseB)

----------------------------------------------------------------------------
(* The claims about the formatter *)

\* The text the k-th call was given.
FormatInput(k) == IF k = 1 THEN raw_text ELSE formatted[k - 1]

\* The text after the three substitutions, before the cap.
Normalized(x) ==
    IF x = NoneVal \/ x = <<>>
    THEN <<>>
    ELSE NormalizeBullets(CollapseBlanks(CollapseBlankLines(x)))

\* C14: for every input text, format_for_google_sheets(text) is at most
\* 45,000 plus the length of the truncation marker long, and the marker is
\* appended exactly when the normalized text is longer than 45,000
\* characters: the result is then the first 45,000 characters of the
\* normalized text and the marker, stripped, and else the normalized text,
\* stripped.
C14_FormatterLengthCap ==
    \A k \in DOMAIN formatted :
        LET normalized == Normalized(FormatInput(k))
        IN  /\ Len(formatted[k]) <= SheetCellCap + Len(TruncationMarker)
            /\ Len(normalized) > SheetCellCap =>
                /\ formatted[k] =
                    Strip(SubSeq(normalized, 1, SheetCellCap) \o TruncationMarker)
                /\ EndsWith(formatted[k], LStrip(TruncationMarker))
            /\ Len(normalized) <= SheetCellCap =>
                /\ formatted[k] = Strip(normalized)
                /\ ~EndsWith(formatted[k], LStrip(TruncationMarker))

\* A text one character over the cap was formatted: the result is the cap
\* and the marker long and ends with the marker.
C14_Witness ==
    /\ Len(raw_text) = SheetCellCap + 1
    /\ formatted # <<>>
    /\ Len(formatted[1]) = SheetCellCap + Len(TruncationMarker)
    /\ EndsWith(formatted[1], TruncationMarker)

\* C15: the formatter is idempotent: formatting the result of the formatter
\* yields that result, texts over the cap and texts with white space at
\* their ends included.
C15_FormatterIdempotent ==
    \A k \in DOMAIN formatted :
        k > 1 => formatted[k] = formatted[k - 1]

\* Text x has two paragraphs with blank lines between them: two newlines
\* with nothing but white space between them, and text on both sides.
HasParagraphBreak(x) ==
    \E i, j \in DOMAIN x :
        /\ i < j
        /\ x[i] = "\n"
        /\ x[j] = "\n"
        /\ \A k \in i..j : x[k] \in Space
        /\ \E a \in 1..(i - 1) : x[a] \notin Space
        /\ \E b \in (j + 1)..Len(x) : x[b] \notin Space

\* Text x holds a blank line: two newlines next to each other.
HasBlankLine(x) == \E i \in 1..(Len(x) - 1) : x[i] = "\n" /\ x[i + 1] = "\n"

\* C25: the formatter collapses every run of blank lines of its input to
\* exactly one blank line (a blank line between paragraphs is kept, and no
\* two follow each other), and every run of spaces and tabs to one space.
\* Stated for the short texts without a list item.
C25_BlankLinesCollapseToOne ==
    \A k \in DOMAIN formatted :
        LET input == FormatInput(k)
            output == formatted[k]
        IN  (Len(input) <= MaxTextLen /\ "-" \notin Range(input)) =>
              /\ HasParagraphBreak(input) => HasBlankLine(output)
              /\ \A i \in 1..(Len(output) - 2) :
                    ~(output[i] = "\n" /\ output[i + 1] = "\n"
                        /\ output[i + 2] = "\n")
              /\ \A i \in 1..(Len(output) - 1) :
                    ~(output[i] \in {" ", "\t"} /\ output[i + 1] \in {" ", "\t"})

----------------------------------------------------------------------------
(* The claims about the poll loop *)

\* C21: Strategy A polls the job again exactly while the status it last
\* observed is queued, in_progress or requires_action; at the first other
\* status it leaves the loop and never polls that job again; and it goes on
\* to list the messages only from the loop, and only when that status is
\* completed.
C21_PollsExactlyWhilePending ==
    [][/\ polls' = polls + 1 =>
            /\ pc = "ex_poll"
            /\ run_status \in {"queued", "in_progress", "requires_action"}
       /\ (pc = "ex_poll"
                /\ run_status \in {"queued", "in_progress", "requires_action"})
            => /\ polls' = polls + 1
               /\ pc' \in {"ex_poll", "ex_chat"}
               /\ pc' = "ex_chat" => trace'[Current].a_status = "raised"
       /\ (pc = "ex_poll"
                /\ run_status \notin {"queued", "in_progress", "requires_action"})
            => /\ polls' = polls
               /\ pc' # "ex_poll"
               /\ trace'[Current].a_status = run_status
       /\ pc' = "ex_response" =>
            /\ pc = "ex_poll"
            /\ run_status = "completed"]_vars

\* The loop has polled as often as the bound lets it, the job then reported
\* completed, and Strategy A is about to list the messages.
C21_Witness ==
    /\ pc = "ex_response"
    /\ polls = MaxPolls
    /\ run_status = "completed"

\* Strategy A is in its loop and the status it last observed is pending.
WaitingOnJob ==
    pc = "ex_poll" /\ run_status \in {"queued", "in_progress", "requires_action"}

\* process_all_pdfs has returned with an entry for every document.
AllRecorded == pc = "ex_done" /\ DOMAIN summaries = DOMAIN blobs

\* C22: the loop has no bound of its own. If no job stays pending for ever,
\* process_all_pdfs eventually returns with an entry for every document; if
\* the job of the k-th document stays pending for ever, the run stays at
\* that document: it never returns and no later document gets an entry.
C22_TerminatesIffNoJobHangs ==
    /\ ([]<>~WaitingOnJob) => <>AllRecorded
    /\ \A k \in 1..Cardinality(PollingDocs) :
        (<>[](WaitingOnJob /\ doc = k)) =>
            [](/\ pc # "ex_done"
               /\ doc <= k
               /\ \A j \in k..Len(pdf_files) : pdf_files[j] \notin DOMAIN summaries)

\* The loop has turned as often as is counted, the job of the first document
\* is still pending, and the second document waits.
C22_Witness ==
    /\ pc = "ex_poll"
    /\ polls = MaxPolls
    /\ run_status = "requires_action"
    /\ doc = 1
    /\ Len(pdf_files) = 2
    /\ summaries = <<>>

----------------------------------------------------------------------------
(* The claims about the pacing of the download loop *)

\* C23: at every turn of the download loop there has been exactly one delay
\* for every fetch attempt made so far: the delay follows every attempt,
\* successful or failed, before the next row is taken up, so no two
\* attempts are made without a delay between them, and the rows that are
\* skipped or classified as no PDF link insert none.
C23_OneDelayPerAttempt ==
    delays = Len(attempts)

\* A row was passed over without a fetch, an attempt failed, a later one
\* stored its document, and the loop has slept twice.
C23_Witness ==
    /\ pc = "download_rows"
    /\ \E i \in 1..(index - 1) : \A k \in DOMAIN attempts : attempts[k].row # i
    /\ Len(attempts) = 2
    /\ attempts[1].outcome = "request_failed"
    /\ attempts[2].outcome = "ok"
    /\ delays = 2

----------------------------------------------------------------------------
(* The claims about the values of the sheet write *)

HasLineBreak(value) == \E i \in DOMAIN value : value[i] \in {"\n", "\r"}

\* C24: every value the sheet write sends, in the header row and in the
\* data rows, is a string without a newline or carriage return, and a
\* missing value is sent as the empty string. (The sheet held nothing, so
\* after the write it holds what was sent.)
C24_SentValuesAreCleanStrings ==
    pc = "merge_save" =>
        /\ \A k \in DOMAIN sheet.columns :
            ~HasLineBreak(HeaderText(sheet.columns[k]))
        /\ \A i \in DOMAIN sheet.rows :
            \A c \in DOMAIN sheet.rows[i] :
                /\ sheet.rows[i][c] # NoneVal
                /\ ~HasLineBreak(sheet.rows[i][c])
                /\ df.rows[i][c] = NoneVal => sheet.rows[i][c] = <<>>

\* The same for the data rows alone.
C24_SentCellsAreCleanStrings ==
    pc = "merge_save" =>
        \A i \in DOMAIN sheet.rows :
            \A c \in DOMAIN sheet.rows[i] :
                /\ sheet.rows[i][c] # NoneVal
                /\ ~HasLineBreak(sheet.rows[i][c])
                /\ df.rows[i][c] = NoneVal => sheet.rows[i][c] = <<>>

----------------------------------------------------------------------------
(* The claims about the text variant *)

\* C26: in the text variant no document is uploaded and Strategy A is never
\* invoked; text extraction is called once per document, with the second
\* library exactly when the first is not available; at most one completion
\* is asked per document, and it carries the first 8000 characters of the
\* extracted text at most; and when the extraction fails or yields no text
\* no completion is asked and the entry of the document is the sentinel.
C26_TextVariantSingleShot ==
    /\ file_id = NoneVal
    /\ run_status = "none"
    /\ polls = 0
    /\ trace = <<>>
    /\ \A d \in DOMAIN text_trace :
        LET t == text_trace[d]
        IN  /\ Len(t.methods) <= 1
            /\ \A k \in DOMAIN t.methods :
                t.methods[k] = "PyPDF2" <=> ~available.pdfplumber
            /\ Len(t.prompts) <= 1
            /\ \A k \in DOMAIN t.prompts :
                /\ Len(t.prompts[k]) <= 8000
                /\ Len(t.prompts[k]) <= Len(t.extracted)
                /\ t.prompts[k] = SubSeq(t.extracted, 1, Len(t.prompts[k]))
                /\ Len(t.extracted) <= 8000 => t.prompts[k] = t.extracted
                /\ Len(t.extracted) > 8000 => Len(t.prompts[k]) = 8000
            /\ (t.methods # <<>> /\ t.extracted \in {NoneVal, <<>>}) =>
                /\ t.prompts = <<>>
                /\ t.done =>
                    (d \in DOMAIN summaries /\ summaries[d] = FailedSentinel)
            /\ t.prompts # <<>> =>
                (t.methods # <<>> /\ t.extracted \notin {NoneVal, <<>>})

\* Without pdfplumber, the second library gave a text one character over
\* the budget for one document, whose completion was asked with 8000
\* characters, and no text for the other, which has the sentinel.
C26_Witness ==
    /\ pc = "tx_done"
    /\ ~available.pdfplumber
    /\ \E d, e \in DOMAIN text_trace :
        /\ text_trace[d].methods = <<"PyPDF2">>
        /\ Len(text_trace[d].extracted) = 8001
        /\ Len(text_trace[d].prompts) = 1
        /\ Len(text_trace[d].prompts[1]) = 8000
        /\ text_trace[d].returned = ResponseB
        /\ text_trace[e].extracted = <<>>
        /\ text_trace[e].prompts = <<>>
        /\ summaries[e] = FailedSentinel

----------------------------------------------------------------------------
(* The claims about the storage directory and the sheet *)

\* C27: once the download phase of a workflow run is over, every file of the
\* storage directory (every document the extraction phase will process) is
\* the blob of a row of the table that has 'PDF Available' = 'Yes' and that
\* 'PDF ID': a failed fetch has left no file, and a re-run has left no blob
\* whose ID no row holds.
C27_EveryBlobHasItsRow ==
    pc \in {"download_done", "wf_save", "wf_done"} =>
        \A d \in DOMAIN blobs :
            \E i \in DOMAIN df.rows :
                /\ df.rows[i]["PDF Available"] = Yes
                /\ df.rows[i]["PDF ID"] = d

\* C28: whenever a download workflow has read a table with rows, the table
\* it returns, writes to the sheet, saves and reports on has the columns
\* 'PDF Available', 'PDF ID' and 'PDF Path', and 'PDF Available' is Yes, No
\* or Failed in every row, also when the table has no link column.
C28_PipelineColumnsPresent ==
    pc \in {"download_returned", "download_done", "wf_save", "wf_done"} =>
        /\ {"PDF Available", "PDF ID", "PDF Path"} \subseteq Range(df.columns)
        /\ \A i \in DOMAIN df.rows :
            /\ "PDF Available" \in DOMAIN df.rows[i]
            /\ df.rows[i]["PDF Available"] \in {Yes, No, Failed}

----------------------------------------------------------------------------
(* The claims about the writes of a batch run *)

\* The values().update call of the run, and the to_csv that follows it.
WriteStep == pc = "merge_update" /\ pc' \in {"merge_save", "merge_update_failed"}
SnapshotStep == pc = "merge_save" /\ pc' = "merge_done"

\* C30: a batch run writes to the sheet at most once, and never when there
\* is nothing to merge. Step by step: the run changes the sheet by its
\* write call alone and the snapshot by the to_csv after a successful write
\* alone; the write call is made only with a mapping that has entries and a
\* table that has rows; it is reached only from the merge, and after it
\* the run only saves and ends; and a run that found no document or read
\* no rows ends from there, without having come to the write.
C30_OneWriteAndOnlyWithData ==
    [][/\ (sheet' # sheet /\ edits' = edits) => WriteStep
       /\ (range_name' # range_name) => WriteStep
       /\ (csv' # csv) => SnapshotStep
       /\ WriteStep => (summaries # <<>> /\ read_df.rows # <<>> /\ df.rows # <<>>)
       /\ (pc' = "merge_update" /\ pc # "merge_update") => pc = "merge_map"
       /\ pc \in {"merge_save", "merge_update_failed", "merge_done"}
            => pc' \in {pc, "merge_done", "ex_start"}
       /\ (pc' = "batch_done" /\ pc # "batch_done")
            => (pc = "ex_done" /\ summaries = <<>>)
       /\ (pc' = "merge_no_data" /\ pc # "merge_no_data")
            => (pc = "merge_start" /\ df'.rows = <<>>)
       /\ pc \in {"batch_done", "merge_no_data"} => pc' \in {pc, "ex_start"}
       /\ (pc = "ex_done" /\ summaries # <<>>) => pc' \in {pc, "merge_start"}
      ]_vars

\* A run with a mapping that has entries read no rows and has ended without
\* a write: the sheet is as it was read from, no range was addressed and no
\* snapshot was saved.
C30_Witness ==
    /\ pc = "merge_no_data"
    /\ summaries # <<>>
    /\ sheet \in BatchSheets
    /\ range_name = NoRange
    /\ csv = <<>>

----------------------------------------------------------------------------
(* The claims about the classifier *)

HasPdfKeyword(s) ==
    \E k \in DOMAIN pdf_patterns : Contains(Lower(s), pdf_patterns[k])

PathEndsInDotPdf(s) ==
    ~UrlParseRaises(s) /\ EndsWith(Lower(UrlPath(s)), DotPdf)

\* C7 as stated: for every non-empty URL string, _is_pdf_url returns true
\* if the path ends in .pdf (any case) or the URL contains one of the
\* keywords case-insensitively, and returns false otherwise.
C7_ClassifierByKeyword ==
    (pc = "classified" /\ url.type = "str" /\ url.s # <<>>) =>
        IF PathEndsInDotPdf(url.s) \/ HasPdfKeyword(url.s)
        THEN result = "True"
        ELSE result = "False"

\* C8 as stated: _is_pdf_url never raises, whatever its input, and returns
\* false for None, the empty string and a non-string.
C8_ClassifierTotal ==
    pc = "classified" =>
        /\ result \in {"True", "False"}
        /\ url \in {NoneArg, IntArg, StrVal(<<>>)} => result = "False"

\* C29: for every non-empty URL string, _is_pdf_url returns true if the
\* lower-cased URL contains 'pdf' and false if it does not: the test of the
\* path suffix and the five other keywords never change the result.
C29_ClassifierIsPdfSubstring ==
    (pc = "classified" /\ url.type = "str" /\ url.s # <<>>) =>
        IF Contains(Lower(url.s), <<"p", "d", "f">>)
        THEN result = "True"
        ELSE result = "False"

\* The same for the URLs urlparse accepts.
C29_PdfSubstringWhenParsed ==
    (pc = "classified" /\ url.type = "str" /\ url.s # <<>>
        /\ ~UrlParseRaises(url.s)) =>
        IF Contains(Lower(url.s), <<"p", "d", "f">>)
        THEN result = "True"
        ELSE result = "False"

====
